---- MODULE Spec2Model ----
(***************************************************************************)
(* A model of tasktree-core (src/core/src/lib.rs): the Tree of Tasks, the  *)
(* derived dependency graph built by Tree::populate_tree, the lint pass    *)
(* Tree::lint_tree and the merge `Tree + &Tree`, driven the way the tests  *)
(* and the command line drive them (toml::from_str, populate_tree,         *)
(* lint_tree, `tree += &set`).                                             *)
(*                                                                         *)
(* A Rust panic (HashMap indexing with an absent key, unwrap/expect) ends  *)
(* the process: the operation returns nothing, ret.status = "panic", and   *)
(* no further operation runs.                                              *)
(*                                                                         *)
(* HashMap and HashSet iterate in an unspecified order.  Every loop over   *)
(* self.tasks takes the iteration order `ord` as an input, and the loop    *)
(* over the HashSet of cycle witnesses takes `cord`; the actions draw them *)
(* from all permutations.  The petgraph Graph is kept up to that order: a  *)
(* bag of node weights and a bag of edges between node weights.            *)
(***************************************************************************)
EXTENDS Integers, Sequences, FiniteSets, Bags, TLC

VARIABLES
    tasks,  \* Tree.tasks: HashMap<String, Task>, a function from names to Tasks
    tree,   \* Tree.tree: Graph<TaskNode, bool>
    ret,    \* the last operation, its operands and what it returned
    loaded  \* the files read so far: how many, and their size together

vars == <<tasks, tree, ret, loaded>>

(***************************************************************************)
(* Bounds of the inputs.                                                   *)
(***************************************************************************)
\* Task names that occur as keys or in depends_on lists.
Names == {"a", "b", "c"}

\* Size of an input Tree: the number of fields that differ from
\* Task::default() (each depends_on entry counts one), summed over its tasks.
\* The operands of one run together stay within this size.
MaxSize == 3

\* Size of an input Tree whose tasks carry dependencies and symbolic flags
\* only (no estimate, no due date, not complete).
MaxPlainSize == 4

\* Number of task sets load_tasksets merges (args.taskset).
MaxSets == 2

\* Largest of the short estimated_times of an input; due dates lie up to
\* MaxTime before and one after the time of the lint.
MaxTime == 1

\* Option::None of estimated_time and due.
None == -1

\* Local::now() of the lint.
local_now == MaxTime

\* Time is counted in units of 10^12 seconds, and dates from an origin that
\* lies local_now units before the time of the lint.
\* std::time::Duration::MAX, u64::MAX seconds: 18446744 units and a fraction.
Duration_MAX == 18446744

\* chrono::TimeDelta::MAX, i64::MAX milliseconds: 9223 units and a fraction.
TimeDelta_MAX == 9223

\* How far the last DateTime (the end of the year 262142) lies after the time
\* of the lint: 8 units and a fraction.
DateTime_MAX_from_now == 8

DateTime_MAX == local_now + DateTime_MAX_from_now

\* DateTime<Local> values of due dates.
Times == 0 .. (MaxTime + 1)

\* Estimates that the additions of the duration check cannot hold: twice the
\* first passes the last DateTime; the second is beyond TimeDelta::MAX, and
\* twice the second beyond Duration::MAX.
LongDurations == {5, 10000000}

\* The Durations an estimate can be: an estimate of zero counts like an absent
\* one (unwrap_or_default).
Durations == (1 .. MaxTime) \cup LongDurations

(***************************************************************************)
(* Task, Tree and TaskNode.                                                *)
(***************************************************************************)
\* Task::default()
DefaultTask ==
    [description |-> "", estimated_time |-> None, depends_on |-> <<>>,
     symbolic |-> FALSE, complete |-> FALSE, due |-> None]

DepLists == UNION {[1 .. n -> Names] : n \in 0 .. MaxSize}

TaskSize(t) ==
    Len(t.depends_on)
    + (IF t.symbolic THEN 1 ELSE 0)
    + (IF t.complete THEN 1 ELSE 0)
    + (IF t.estimated_time # None THEN 1 ELSE 0)
    + (IF t.due # None THEN 1 ELSE 0)

RECURSIVE TreeSizeOver(_, _)
TreeSizeOver(ts, ks) ==
    IF ks = {} THEN 0
    ELSE LET n == CHOOSE x \in ks : TRUE
         IN TaskSize(ts[n]) + TreeSizeOver(ts, ks \ {n})

TreeSize(ts) == TreeSizeOver(ts, DOMAIN ts)

\* The Tasks a file can hold, within the bounds.
Task ==
    {t \in {r : r \in [description : {""},
                       estimated_time : {None} \cup Durations,
                       depends_on : DepLists,
                       symbolic : BOOLEAN,
                       complete : BOOLEAN,
                       due : {None} \cup Times]} : TaskSize(t) <= MaxSize}

TasksOfSize == [k \in 0 .. MaxSize |-> {t \in Task : TaskSize(t) = k}]

\* The Tasks with dependencies and a symbolic flag only.
PlainDepLists == UNION {[1 .. n -> Names] : n \in 0 .. MaxPlainSize}

PlainTask ==
    {t \in {r : r \in [description : {""},
                       estimated_time : {None},
                       depends_on : PlainDepLists,
                       symbolic : BOOLEAN,
                       complete : {FALSE},
                       due : {None}]} : TaskSize(t) <= MaxPlainSize}

PlainTasksOfSize == [k \in 0 .. MaxPlainSize |-> {t \in PlainTask : TaskSize(t) = k}]

\* Tree::default().tasks: the empty map.
EmptyTasks == [n \in {} |-> DefaultTask]

RECURSIVE SumOver(_, _)
SumOver(f, ks) ==
    IF ks = {} THEN 0
    ELSE LET n == CHOOSE x \in ks : TRUE
         IN f[n] + SumOver(f, ks \ {n})

\* How a size of at most budget is shared among the keys ks (0 for the others).
Sizes(ks, budget) ==
    {sz \in [Names -> 0 .. budget] :
        /\ \A n \in Names \ ks : sz[n] = 0
        /\ SumOver(sz, Names) <= budget}

\* One Task per name, of the sizes sz.
TasksSized(sz) ==
    [a : TasksOfSize[sz["a"]], b : TasksOfSize[sz["b"]], c : TasksOfSize[sz["c"]]]

PlainTasksSized(sz) ==
    [a : PlainTasksOfSize[sz["a"]], b : PlainTasksOfSize[sz["b"]],
     c : PlainTasksOfSize[sz["c"]]]

\* The task map with the keys ks taken from f.
Keep(f, ks) == [n \in ks |-> f[n]]

\* Graph::new(): no nodes, no edges.
EmptyGraph == [nodes |-> EmptyBag, edges |-> EmptyBag]

\* struct TaskNode
TaskNode(name, complete, is_root) ==
    [name |-> name, complete |-> complete, is_root |-> is_root]

\* All orders in which a set can be iterated (sequences without repetition).
Orders(S) ==
    {s \in [1 .. Cardinality(S) -> S] : \A i, j \in 1 .. Cardinality(S) : s[i] = s[j] => i = j}

\* vec.contains(x)
Contains(s, x) == \E i \in 1 .. Len(s) : s[i] = x

(***************************************************************************)
(* Tree::populate_tree                                                     *)
(***************************************************************************)
\* task.depends_on.iter().all(|name| tasks[name].complete): the scan stops at
\* the first incomplete dependency; indexing an absent name panics.
RECURSIVE all_complete(_, _, _)
all_complete(ts, deps, i) ==
    IF i > Len(deps) THEN "true"
    ELSE IF deps[i] \notin DOMAIN ts THEN "panic"
    ELSE IF ~ts[deps[i]].complete THEN "false"
    ELSE all_complete(ts, deps, i + 1)

\* One pass of the body of `while did_something`: the names pushed to
\* `completed`, or a panic.
implied_names(ts) ==
    {n \in DOMAIN ts :
        ts[n].symbolic /\ ~ts[n].complete /\ all_complete(ts, ts[n].depends_on, 1) = "true"}

pass_panics(ts) ==
    \E n \in DOMAIN ts :
        ts[n].symbolic /\ ~ts[n].complete /\ all_complete(ts, ts[n].depends_on, 1) = "panic"

\* let mut did_something = false;
did_something_initially == FALSE

\* while did_something { ... }: the loop body runs only while the flag is set.
RECURSIVE resolve_symbolics(_, _)
resolve_symbolics(ts, did_something) ==
    IF ~did_something THEN [panic |-> FALSE, tasks |-> ts]
    ELSE IF pass_panics(ts) THEN [panic |-> TRUE, tasks |-> ts]
    ELSE LET completed == implied_names(ts)
             next == [n \in DOMAIN ts |->
                        IF n \in completed THEN [ts[n] EXCEPT !.complete = TRUE] ELSE ts[n]]
         IN resolve_symbolics(next, completed # {})

\* The root node and one node per task, the root's edge to each.
root_node == TaskNode("root", TRUE, TRUE)

task_node(ts, n) == TaskNode(n, ts[n].complete, FALSE)

create_nodes(ts) ==
    SetToBag({root_node}) (+) SetToBag({task_node(ts, n) : n \in DOMAIN ts})

root_edges(ts) ==
    SetToBag({[from |-> root_node, to |-> task_node(ts, n), weight |-> FALSE] : n \in DOMAIN ts})

\* for dep in task.depends_on: add_edge(indices[name], indices[dep], self.tasks[dep].complete)
RECURSIVE dep_edges_of(_, _, _)
dep_edges_of(ts, n, i) ==
    IF i > Len(ts[n].depends_on) THEN EmptyBag
    ELSE LET dep == ts[n].depends_on[i]
         IN SetToBag({[from |-> task_node(ts, n), to |-> task_node(ts, dep),
                       weight |-> ts[dep].complete]})
            (+) dep_edges_of(ts, n, i + 1)

RECURSIVE dep_edges(_, _)
dep_edges(ts, ks) ==
    IF ks = {} THEN EmptyBag
    ELSE LET n == CHOOSE x \in ks : TRUE
         IN dep_edges_of(ts, n, 1) (+) dep_edges(ts, ks \ {n})

\* indices[dep] panics when dep is not a key of tasks.
edges_panic(ts) ==
    \E n \in DOMAIN ts : \E i \in 1 .. Len(ts[n].depends_on) :
        ts[n].depends_on[i] \notin DOMAIN ts

\* populate_tree(&mut self): the tasks and the tree it leaves, or a panic.
populate_tree(ts) ==
    LET resolved == resolve_symbolics(ts, did_something_initially)
    IN IF resolved.panic \/ edges_panic(resolved.tasks)
       THEN [panic |-> TRUE, tasks |-> resolved.tasks, tree |-> EmptyGraph]
       ELSE [panic |-> FALSE,
             tasks |-> resolved.tasks,
             tree |-> [nodes |-> create_nodes(resolved.tasks),
                       edges |-> root_edges(resolved.tasks)
                                 (+) dep_edges(resolved.tasks, DOMAIN resolved.tasks)]]

(***************************************************************************)
(* Tree::lint_tree                                                         *)
(***************************************************************************)
\* enum TaskTreeCoreError; the fields a variant lacks are "".
Error(kind, task_name, dependency, reason) ==
    [kind |-> kind, task_name |-> task_name, dependency |-> dependency, reason |-> reason]

FloatingSymbolic(task_name) == Error("FloatingSymbolic", task_name, "", "")

CyclicDependency(task_name, dependency) == Error("CyclicDependency", task_name, dependency, "")

NonexistentDependency(task_name, dependency) ==
    Error("NonexistentDependency", task_name, dependency, "")

ImpossibleTaskError(task_name, reason) == Error("ImpossibleTaskError", task_name, "", reason)

\* task.depends_on.iter().any(|dep| !self.tasks[dep].symbolic): the scan stops
\* at the first non-symbolic dependency; indexing an absent name panics.
RECURSIVE any_non_symbolic(_, _, _)
any_non_symbolic(ts, deps, i) ==
    IF i > Len(deps) THEN "false"
    ELSE IF deps[i] \notin DOMAIN ts THEN "panic"
    ELSE IF ~ts[deps[i]].symbolic THEN "true"
    ELSE any_non_symbolic(ts, deps, i + 1)

\* task.depends_on.iter().any(|dep| good_symbolic_tasks.contains(dep))
any_good(deps, good) == \E i \in 1 .. Len(deps) : Contains(good, deps[i])

\* One `for (name, task) in &self.tasks` of the loop that finds the good
\* symbolic tasks, from position i of the iteration order.
RECURSIVE good_pass(_, _, _, _, _)
good_pass(ts, ord, i, good, found_any_new) ==
    IF i > Len(ord) THEN [panic |-> FALSE, good |-> good, found_any_new |-> found_any_new]
    ELSE LET name == ord[i]
             task == ts[name]
             non_symbolic == any_non_symbolic(ts, task.depends_on, 1)
         IN IF task.depends_on = <<>> THEN good_pass(ts, ord, i + 1, good, found_any_new)
            ELSE IF non_symbolic = "panic"
            THEN [panic |-> TRUE, good |-> good, found_any_new |-> found_any_new]
            ELSE IF /\ (non_symbolic = "true" \/ any_good(task.depends_on, good))
                    /\ ~Contains(good, name)
            THEN good_pass(ts, ord, i + 1, Append(good, name), TRUE)
            ELSE good_pass(ts, ord, i + 1, good, found_any_new)

\* A variant that stops after the first pass instead of looping to the fixpoint.
good_symbolic_tasks_one_pass(ts, ord, good) == good_pass(ts, ord, 1, good, FALSE)

\* loop { ...; if !found_any_new { break; } }
RECURSIVE good_symbolic_tasks(_, _, _)
good_symbolic_tasks(ts, ord, good) ==
    LET pass == good_pass(ts, ord, 1, good, FALSE)
    IN IF pass.panic \/ ~pass.found_any_new THEN pass
       ELSE good_symbolic_tasks(ts, ord, pass.good)

\* Find any bad symbolic: one FloatingSymbolic per symbolic task not in good.
RECURSIVE floating_errors(_, _, _, _)
floating_errors(ts, ord, i, good) ==
    IF i > Len(ord) THEN <<>>
    ELSE (IF ts[ord[i]].symbolic /\ ~Contains(good, ord[i])
          THEN <<FloatingSymbolic(ord[i])>> ELSE <<>>)
         \o floating_errors(ts, ord, i + 1, good)

\* The smallest member of a non-empty set of positions.
First(S) == CHOOSE i \in S : \A j \in S : i <= j

\* A variant that records the witness as (dependency, task).
RECURSIVE visitor_reversed(_, _, _)
visitor_reversed(ts, task, visited) ==
    IF task \notin DOMAIN ts THEN [panic |-> TRUE, set |-> {}]
    ELSE LET path == Append(visited, task)
             deps == ts[task].depends_on
             hits == {i \in 1 .. Len(deps) : Contains(path, deps[i])}
         IN IF hits # {} THEN [panic |-> FALSE, set |-> {<<deps[First(hits)], task>>}]
            ELSE LET subs == {visitor_reversed(ts, deps[i], path) : i \in 1 .. Len(deps)}
                 IN [panic |-> \E r \in subs : r.panic, set |-> UNION {r.set : r \in subs}]

\* fn visitor(tasks, task, visited) -> HashSet<(String, String)> of the cycle
\* check: the first dependency already on the path is the witness; otherwise
\* every dependency is visited with the path extended.
RECURSIVE visitor(_, _, _)
visitor(ts, task, visited) ==
    IF task \notin DOMAIN ts THEN [panic |-> TRUE, set |-> {}]
    ELSE LET path == Append(visited, task)
             deps == ts[task].depends_on
             hits == {i \in 1 .. Len(deps) : Contains(path, deps[i])}
         IN IF hits # {} THEN [panic |-> FALSE, set |-> {<<task, deps[First(hits)]>>}]
            ELSE LET subs == {visitor(ts, deps[i], path) : i \in 1 .. Len(deps)}
                 IN [panic |-> \E r \in subs : r.panic, set |-> UNION {r.set : r \in subs}]

\* let found: HashSet<_> = self.tasks.iter().map(|n| visitor(..)).flatten().collect()
found(ts) ==
    LET subs == {visitor(ts, n, <<>>) : n \in DOMAIN ts}
    IN [panic |-> \E r \in subs : r.panic, set |-> UNION {r.set : r \in subs}]

\* for err in &found: one CyclicDependency per witness, in the set's order.
cyclic_errors(cord) == [i \in 1 .. Len(cord) |-> CyclicDependency(cord[i][1], cord[i][2])]

\* estimated_time.unwrap_or_default()
unwrap_or_default(t) == IF t = None THEN 0 ELSE t

\* *completion_time + estimated_time: Duration's `+` panics ("overflow when
\* adding durations") when the sum is beyond Duration::MAX.
duration_add(completion_time, estimated_time) ==
    IF completion_time + estimated_time > Duration_MAX
    THEN [panic |-> TRUE, completion_time |-> completion_time]
    ELSE [panic |-> FALSE, completion_time |-> completion_time + estimated_time]

\* chrono::Duration::from_std(completion_time).unwrap(): an Err, and so a
\* panic, beyond TimeDelta::MAX.
from_std_unwrap(completion_time) ==
    [panic |-> completion_time > TimeDelta_MAX, completion_time |-> completion_time]

\* now + completion_time panics ("`DateTime + TimeDelta` overflowed") when the
\* sum is beyond the last DateTime.
date_add_panics(now, completion_time) == now + completion_time > DateTime_MAX

\* fn visitor(tasks, task, completion_time) of the duration check: an
\* incomplete task adds its estimate and visits each dependency in turn.
RECURSIVE completion_visitor(_, _, _)
RECURSIVE completion_visitor_deps(_, _, _, _)
completion_visitor(ts, task, completion_time) ==
    IF task \notin DOMAIN ts THEN [panic |-> TRUE, completion_time |-> completion_time]
    ELSE IF ~ts[task].complete
    THEN LET sum == duration_add(completion_time,
                                 unwrap_or_default(ts[task].estimated_time))
         IN IF sum.panic THEN sum
            ELSE completion_visitor_deps(ts, ts[task].depends_on, 1, sum.completion_time)
    ELSE [panic |-> FALSE, completion_time |-> completion_time]

completion_visitor_deps(ts, deps, i, completion_time) ==
    IF i > Len(deps) THEN [panic |-> FALSE, completion_time |-> completion_time]
    ELSE LET r == completion_visitor(ts, deps[i], completion_time)
         IN IF r.panic THEN r ELSE completion_visitor_deps(ts, deps, i + 1, r.completion_time)

\* let mut completion_time = task.estimated_time.unwrap_or_default();
\* visitor(&self.tasks, name.clone(), &mut completion_time);
\* let completion_time = chrono::Duration::from_std(completion_time).unwrap();
completion_time(ts, name) ==
    LET r == completion_visitor(ts, name, unwrap_or_default(ts[name].estimated_time))
    IN IF r.panic THEN r ELSE from_std_unwrap(r.completion_time)

\* if due_date < now && !task.complete { push DueInPast }
due_in_past_errors(ts, name, now) ==
    IF ts[name].due < now /\ ~ts[name].complete
    THEN <<ImpossibleTaskError(name, "DueInPast")>> ELSE <<>>

\* The completion time of the task, then
\* if (now + completion_time) > due_date { push NotEnoughTime }
\* or the panic of one of the three additions and conversions.
not_enough_time_errors(ts, name, now) ==
    LET r == completion_time(ts, name)
    IN IF r.panic \/ date_add_panics(now, r.completion_time)
       THEN [panic |-> TRUE, errors |-> <<>>]
       ELSE [panic |-> FALSE,
             errors |-> IF now + r.completion_time > ts[name].due
                        THEN <<ImpossibleTaskError(name, "NotEnoughTime")>> ELSE <<>>]

\* The findings of one task after those of its DueInPast test.
after_due_in_past(ts, name, now) ==
    LET r == not_enough_time_errors(ts, name, now)
    IN [panic |-> r.panic,
        errors |-> IF r.panic THEN <<>> ELSE due_in_past_errors(ts, name, now) \o r.errors]

\* A variant that also skips the tasks without an estimate.
impossible_errors_of_estimated(ts, name, now) ==
    IF ts[name].due = None \/ ts[name].estimated_time = None
    THEN [panic |-> FALSE, errors |-> <<>>]
    ELSE after_due_in_past(ts, name, now)

\* The body of `for (name, task) in &self.tasks` of the duration check.
impossible_errors_of(ts, name, now) ==
    IF ts[name].due = None THEN [panic |-> FALSE, errors |-> <<>>]
    ELSE after_due_in_past(ts, name, now)

\* for (name, task) in &self.tasks, from position i of the iteration order:
\* the findings pushed, or the panic of the first task that has one.
RECURSIVE impossible_errors(_, _, _, _)
impossible_errors(ts, ord, i, now) ==
    IF i > Len(ord) THEN [panic |-> FALSE, errors |-> <<>>]
    ELSE LET r == impossible_errors_of(ts, ord[i], now)
             rest == impossible_errors(ts, ord, i + 1, now)
         IN IF r.panic \/ rest.panic THEN [panic |-> TRUE, errors |-> <<>>]
            ELSE [panic |-> FALSE, errors |-> r.errors \o rest.errors]

\* Whether the duration check panics: it does in every iteration order when it
\* does for one task.
impossible_panics(ts, now) ==
    \E n \in DOMAIN ts : impossible_errors_of(ts, n, now).panic

\* Detect missing dependencies: for each task, for each dependency in order.
RECURSIVE missing_errors_of(_, _, _)
missing_errors_of(ts, name, i) ==
    IF i > Len(ts[name].depends_on) THEN <<>>
    ELSE (IF ts[name].depends_on[i] \notin DOMAIN ts
          THEN <<NonexistentDependency(name, ts[name].depends_on[i])>> ELSE <<>>)
         \o missing_errors_of(ts, name, i + 1)

RECURSIVE missing_errors(_, _, _)
missing_errors(ts, ord, i) ==
    IF i > Len(ord) THEN <<>>
    ELSE missing_errors_of(ts, ord[i], 1) \o missing_errors(ts, ord, i + 1)

\* A variant in which the cycle check pushes before the floating check.
errors_cycles_first(floating, cycles, impossible, missing) ==
    cycles \o floating \o impossible \o missing

\* The order in which the four checks push their findings to `errors`.
errors_in_order(floating, cycles, impossible, missing) ==
    floating \o cycles \o impossible \o missing

\* if !cyclic { ... }: the duration check runs only when no witness was found.
duration_check_runs(cyclic) == ~cyclic

\* lint_tree(&self) at the time `now`, iterating the tasks in the order ord and
\* the witnesses in the order cord: the errors pushed, or a panic.
lint_tree(ts, now, ord, cord) ==
    LET good == good_symbolic_tasks(ts, ord, <<>>)
        cycles == found(ts)
        cyclic == cycles.set # {}
    IN IF good.panic \/ cycles.panic THEN [panic |-> TRUE, errors |-> <<>>]
       ELSE IF duration_check_runs(cyclic) /\ impossible_panics(ts, now)
       THEN [panic |-> TRUE, errors |-> <<>>]
       ELSE [panic |-> FALSE,
             errors |-> errors_in_order(
                 floating_errors(ts, ord, 1, good.good),
                 cyclic_errors(cord),
                 IF duration_check_runs(cyclic)
                 THEN impossible_errors(ts, ord, 1, now).errors ELSE <<>>,
                 missing_errors(ts, ord, 1))]

(***************************************************************************)
(* impl Add<&Tree> for Tree, impl AddAssign<&Tree> for Tree                *)
(***************************************************************************)
\* self.tasks.extend(other.tasks.iter().map(|(k, v)| (k.clone(), v.clone())))
extend(ts, other) ==
    [n \in DOMAIN ts \cup DOMAIN other |-> IF n \in DOMAIN other THEN other[n] ELSE ts[n]]

\* fn add(mut self, other: &Tree) -> Self: extend, then populate_tree().expect(..)
add(ts, other) == populate_tree(extend(ts, other))

(***************************************************************************)
(* The edits of a loaded Tree: add_task, remove_task, complete_task of the *)
(* command line, and a caller that writes a field of a Task.               *)
(***************************************************************************)
\* taskset.tasks.insert(name.to_owned(), task)
insert(ts, name, task) ==
    [n \in DOMAIN ts \cup {name} |-> IF n = name THEN task ELSE ts[n]]

\* for task in &name { taskset.tasks.remove(task); }
remove(ts, name) == [n \in DOMAIN ts \ name |-> ts[n]]

\* The values of the option `complete` of complete_task: an Option<bool>.
OptionBool == {"None", "Some(true)", "Some(false)"}

\* complete.unwrap_or(true)
unwrap_or_true(complete) == complete # "Some(false)"

\* for task in &name { if let Some(task) = taskset.tasks.get_mut(task) {
\*     task.complete = complete.unwrap_or(true); } }
set_complete(ts, name, complete) ==
    [n \in DOMAIN ts |->
        IF n \in name THEN [ts[n] EXCEPT !.complete = unwrap_or_true(complete)] ELSE ts[n]]

\* tree.tasks.get_mut(name).unwrap().due = Some(due): the unwrap panics when
\* the name is not a key.
set_due(ts, name, due) ==
    IF name \notin DOMAIN ts THEN [panic |-> TRUE, tasks |-> ts]
    ELSE [panic |-> FALSE, tasks |-> [ts EXCEPT ![name].due = due]]

(***************************************************************************)
(* The operations.                                                         *)
(***************************************************************************)
\* What the last operation was called with and what it returned: `other` is
\* the operand of an addition, `now` the time a lint sampled.
Ret(op, status, errors, now, other) ==
    [op |-> op, status |-> status, errors |-> errors, now |-> now, other |-> other]

Running == ret.status # "panic"

\* Tree::default(): the value load_tasksets starts from.
Init ==
    /\ tasks = EmptyTasks
    /\ tree = EmptyGraph
    /\ ret = Ret("default", "ok", <<>>, 0, EmptyTasks)
    /\ loaded = [sets |-> 0, size |-> 0]

\* toml::from_str::<Tree>(..): the tasks of a file; `tree` is #[serde(skip)].
FromStr ==
    /\ ret.op = "default"
    /\ \E ks \in SUBSET Names : \E sz \in Sizes(ks, MaxSize) : \E f \in TasksSized(sz) :
        /\ tasks' = Keep(f, ks)
        /\ tree' = EmptyGraph
        /\ ret' = Ret("from_str", "ok", <<>>, 0, EmptyTasks)
        /\ loaded' = [sets |-> 1, size |-> TreeSize(Keep(f, ks))]

\* The same, of a file whose tasks carry dependencies and symbolic flags only.
FromStrPlain ==
    /\ ret.op = "default"
    /\ \E ks \in SUBSET Names : \E sz \in Sizes(ks, MaxPlainSize) : \E f \in PlainTasksSized(sz) :
        /\ tasks' = Keep(f, ks)
        /\ tree' = EmptyGraph
        /\ ret' = Ret("from_str", "ok", <<>>, 0, EmptyTasks)
        /\ loaded' = [sets |-> 1, size |-> TreeSize(Keep(f, ks))]

\* tree.tasks.get_mut(name).unwrap().due = Some(due), of a caller between
\* from_str and populate_tree.
SetDue ==
    /\ Running
    /\ ret.op = "from_str"
    /\ \E name \in Names : \E due \in Times :
        LET r == set_due(tasks, name, due)
        IN /\ TreeSize(r.tasks) <= MaxSize
           /\ tasks' = r.tasks
           /\ ret' = IF r.panic THEN Ret("set_due", "panic", <<>>, 0, EmptyTasks) ELSE ret
           /\ loaded' = [loaded EXCEPT !.size = TreeSize(r.tasks)]
    /\ UNCHANGED tree

\* The end of add_task, remove_task and complete_task:
\* taskset.populate_tree().unwrap(), then the taskset is written back.
Edited(ts) ==
    LET r == populate_tree(ts)
    IN /\ tasks' = r.tasks
       /\ tree' = r.tree
       /\ ret' = Ret("populate_tree", IF r.panic THEN "panic" ELSE "ok", <<>>, 0,
                     EmptyTasks)
       /\ loaded' = [loaded EXCEPT !.size = TreeSize(r.tasks)]

\* The outcomes of Local.from_local_datetime(&due): the local time of the
\* arguments is one instant, does not exist in the time zone, or occurs twice.
LocalResult == {"Single", "None", "Ambiguous"}

\* due.map(|due| Local.from_local_datetime(&due).unwrap()): the unwrap panics
\* unless the local time is a single instant.
from_local_datetime_unwrap(due, local) ==
    IF due = None THEN [panic |-> FALSE, due |-> None]
    ELSE IF local # "Single" THEN [panic |-> TRUE, due |-> None]
    ELSE [panic |-> FALSE, due |-> due]

\* add_task with args.taskset of `tasksets` names, on the taskset `file` of
\* its one name: panic unless exactly one taskset is named; the file is read,
\* the due date of the arguments converted, the Task inserted under its name,
\* the taskset populated (unwrap) and written back. `op` is the call that
\* ended the command.
add_task(tasksets, file, name, task, local) ==
    IF tasksets # 1
    THEN [op |-> "add_task", panic |-> TRUE, tasks |-> EmptyTasks, tree |-> EmptyGraph]
    ELSE IF from_local_datetime_unwrap(task.due, local).panic
    THEN [op |-> "add_task", panic |-> TRUE, tasks |-> file, tree |-> EmptyGraph]
    ELSE LET r == populate_tree(insert(file, name,
                      [task EXCEPT !.due = from_local_datetime_unwrap(task.due, local).due]))
         IN [op |-> "populate_tree", panic |-> r.panic, tasks |-> r.tasks, tree |-> r.tree]

\* add_task: any number of tasksets named, any file, any name and Task of the
\* arguments, the due date a local time of any kind.
AddTask ==
    /\ ret.op = "default"
    /\ \E tasksets \in 0 .. MaxSets :
       \E ks \in SUBSET Names : \E sz \in Sizes(ks, MaxSize) : \E f \in TasksSized(sz) :
       \E name \in Names : \E k \in 0 .. (MaxSize - TreeSize(Keep(f, ks))) :
       \E task \in TasksOfSize[k] :
       \E local \in (IF task.due = None THEN {"Single"} ELSE LocalResult) :
        LET r == add_task(tasksets, Keep(f, ks), name, task, local)
        IN /\ tasks' = r.tasks
           /\ tree' = r.tree
           /\ ret' = Ret(r.op, IF r.panic THEN "panic" ELSE "ok", <<>>, 0, EmptyTasks)
           /\ loaded' = [sets |-> 1, size |-> TreeSize(r.tasks)]

\* remove_task: the named tasks are removed from the taskset read from the file.
RemoveTask ==
    /\ Running
    /\ ret.op = "from_str"
    /\ \E name \in SUBSET Names : Edited(remove(tasks, name))

\* complete_task: the named tasks that exist get the completion of the arguments.
CompleteTask ==
    /\ Running
    /\ ret.op = "from_str"
    /\ \E name \in SUBSET Names : \E complete \in OptionBool :
        /\ TreeSize(set_complete(tasks, name, complete)) <= MaxSize
        /\ Edited(set_complete(tasks, name, complete))

\* tree.populate_tree()
PopulateTree ==
    /\ Running
    /\ ret.op = "from_str"
    /\ LET r == populate_tree(tasks)
       IN /\ tasks' = r.tasks
          /\ tree' = r.tree
          /\ ret' = Ret("populate_tree", IF r.panic THEN "panic" ELSE "ok", <<>>, 0,
                        EmptyTasks)
    /\ UNCHANGED loaded

\* tree.lint_tree(): Ok(()) when no error was pushed, Err(errors) otherwise.
LintTree ==
    /\ Running
    /\ ret.op # "lint_tree"
    /\ \E ord \in Orders(DOMAIN tasks) : \E cord \in Orders(found(tasks).set) :
        LET r == lint_tree(tasks, local_now, ord, cord)
        IN ret' = Ret("lint_tree",
                      IF r.panic THEN "panic" ELSE IF r.errors = <<>> THEN "ok" ELSE "err",
                      r.errors, local_now, EmptyTasks)
    /\ UNCHANGED <<tasks, tree, loaded>>

\* tree + &other, and `tree += &set` of load_tasksets (*self = self.clone() + other).
Add ==
    /\ Running
    /\ ret.op \in {"default", "add"}
    /\ loaded.sets < MaxSets
    /\ \E ks \in SUBSET Names : \E sz \in Sizes(ks, MaxSize - loaded.size) :
       \E f \in TasksSized(sz) :
        LET r == add(tasks, Keep(f, ks))
        IN /\ tasks' = r.tasks
           /\ tree' = r.tree
           /\ ret' = Ret("add", IF r.panic THEN "panic" ELSE "ok", <<>>, 0,
                         Keep(f, ks))
           /\ loaded' = [sets |-> loaded.sets + 1, size |-> loaded.size + TreeSize(Keep(f, ks))]

\* A library caller or a test: a Tree read from a file, a due date written or
\* not, populated or not, linted.
Next ==
    \/ FromStr
    \/ SetDue
    \/ PopulateTree
    \/ LintTree

Spec == Init /\ [][Next]_vars

\* The editing commands of the command line: a taskset read from its file,
\* edited, populated and written back.
NextEdit ==
    \/ FromStr
    \/ AddTask
    \/ RemoveTask
    \/ CompleteTask

SpecEdit == Init /\ [][NextEdit]_vars

\* The same caller, on the larger files without times.
NextPlain ==
    \/ FromStrPlain
    \/ PopulateTree
    \/ LintTree

SpecPlain == Init /\ [][NextPlain]_vars

\* load_tasksets: each task set is added to Tree::default().
NextLoad == Add

SpecLoad == Init /\ [][NextLoad]_vars

(***************************************************************************)
(* What the claims speak of, defined from the task map alone.              *)
(***************************************************************************)
DepsOf(ts, n) == {ts[n].depends_on[i] : i \in 1 .. Len(ts[n].depends_on)}

AllDepsExist(ts) == \A n \in DOMAIN ts : DepsOf(ts, n) \subseteq DOMAIN ts

\* The tasks reachable from the set S along depends_on, S included.
RECURSIVE Closure(_, _)
Closure(ts, S) ==
    LET T == S \cup UNION {DepsOf(ts, m) : m \in S \cap DOMAIN ts}
    IN IF T = S THEN S ELSE Closure(ts, T)

\* The tasks reachable from n in one step or more.
Reach(ts, n) == Closure(ts, DepsOf(ts, n))

Acyclic(ts) == \A n \in DOMAIN ts : n \notin Reach(ts, n)

\* The least fixpoint of: a symbolic task is anchored if it has a non-symbolic
\* dependency or a dependency that is already anchored.
RECURSIVE AnchoredFrom(_, _)
AnchoredFrom(ts, A) ==
    LET B == A \cup {n \in DOMAIN ts :
                 /\ ts[n].symbolic
                 /\ \E d \in DepsOf(ts, n) : (d \in DOMAIN ts /\ ~ts[d].symbolic) \/ d \in A}
    IN IF B = A THEN A ELSE AnchoredFrom(ts, B)

Anchored(ts) == AnchoredFrom(ts, {})

\* The dependencies reached from n by descending depends_on through incomplete
\* dependencies only.
RECURSIVE IncompleteClosure(_, _)
IncompleteClosure(ts, S) ==
    LET T == S \cup {d \in UNION {DepsOf(ts, m) : m \in S} : d \in DOMAIN ts /\ ~ts[d].complete}
    IN IF T = S THEN S ELSE IncompleteClosure(ts, T)

IncompleteDeps(ts, n) ==
    IncompleteClosure(ts, {d \in DepsOf(ts, n) : d \in DOMAIN ts /\ ~ts[d].complete})

RECURSIVE EstimateSum(_, _)
EstimateSum(ts, S) ==
    IF S = {} THEN 0
    ELSE LET m == CHOOSE x \in S : TRUE
         IN unwrap_or_default(ts[m].estimated_time) + EstimateSum(ts, S \ {m})

\* The task's own estimate once, plus the estimate of each dependency reached.
ClaimedCompletionTime(ts, n) ==
    unwrap_or_default(ts[n].estimated_time) + EstimateSum(ts, IncompleteDeps(ts, n) \ {n})

\* A lint has returned (Ok or Err) for the current tasks.
LintReturned == ret.op = "lint_tree" /\ ret.status # "panic"

Errors == {ret.errors[i] : i \in 1 .. Len(ret.errors)}

CountOf(e) == Cardinality({i \in 1 .. Len(ret.errors) : ret.errors[i] = e})

Occurrences(deps, d) == Cardinality({i \in 1 .. Len(deps) : deps[i] = d})

KindRank(kind) ==
    CASE kind = "FloatingSymbolic" -> 1
      [] kind = "CyclicDependency" -> 2
      [] kind = "NonexistentDependency" -> 3
      [] kind = "ImpossibleTaskError" -> 4

HasKind(kind) == \E e \in Errors : e.kind = kind

(***************************************************************************)
(* The claims.                                                             *)
(***************************************************************************)
\* C1: after populate_tree returns, no task is symbolic, incomplete and has all
\* its dependencies complete, and each task's node carries its completion flag.
C1_SymbolicFixpoint ==
    (ret.op = "populate_tree" /\ ret.status = "ok") =>
        /\ \A n \in DOMAIN tasks :
            ~(/\ tasks[n].symbolic
              /\ ~tasks[n].complete
              /\ \A d \in DepsOf(tasks, n) : d \in DOMAIN tasks /\ tasks[d].complete)
        /\ \A n \in DOMAIN tasks : CopiesIn(task_node(tasks, n), tree.nodes) = 1

\* C2: lint_tree returns for any Tree, and its findings hold exactly one
\* NonexistentDependency{task_name, dependency} for every occurrence of a
\* depends_on name that is not a key of tasks, and none for a name that is.
C2_MissingDependencies ==
    ret.op = "lint_tree" =>
        /\ ret.status # "panic"
        /\ \A n \in DOMAIN tasks : \A d \in Names :
            CountOf(NonexistentDependency(n, d)) =
                IF d \in DOMAIN tasks THEN 0 ELSE Occurrences(tasks[n].depends_on, d)

\* C3: populate_tree does not fail for any Tree, dangling dependencies
\* included, and leaves a graph whose nodes are the root and one node per key
\* of tasks, with an edge from the root to every task node.
C3_PopulateToleratesDangling ==
    ret.op = "populate_tree" =>
        /\ ret.status = "ok"
        /\ tree.nodes = SetToBag({root_node} \cup {task_node(tasks, n) : n \in DOMAIN tasks})
        /\ \A n \in DOMAIN tasks :
            CopiesIn([from |-> root_node, to |-> task_node(tasks, n), weight |-> FALSE],
                     tree.edges) = 1

\* C4: in an acyclic Tree whose dependencies all exist, a task with a due date
\* that is not reported DueInPast is reported NotEnoughTime exactly when
\* now + completion_time > due, where completion_time is its own estimate
\* counted once plus the estimate of every dependency reached through
\* incomplete dependencies.
C4_NotEnoughTimeFormula ==
    (LintReturned /\ Acyclic(tasks) /\ AllDepsExist(tasks)) =>
        \A n \in DOMAIN tasks :
            (tasks[n].due # None /\ ImpossibleTaskError(n, "DueInPast") \notin Errors) =>
                (ImpossibleTaskError(n, "NotEnoughTime") \in Errors
                    <=> ret.now + ClaimedCompletionTime(tasks, n) > tasks[n].due)

\* C5: for any Trees L and R, L + R exists and its task map has the keys of L
\* and of R, every key of R mapped to R's Task and every other key to L's.
C5_MergeLastWriterWins ==
    [][ret'.op = "add" =>
        /\ ret'.status = "ok"
        /\ DOMAIN tasks' = DOMAIN tasks \cup DOMAIN ret'.other
        /\ \A n \in DOMAIN tasks' :
            tasks'[n] = IF n \in DOMAIN ret'.other THEN ret'.other[n] ELSE tasks[n]]_vars

\* C6: when every dependency exists, lint_tree ends: if depends_on has a
\* cycle it returns at least one CyclicDependency, and if depends_on is acyclic
\* it reports none (it returns, or its duration check ends in a panic on a time
\* out of range); each witness is reported once and is a depends_on edge.
C6_CycleDetection ==
    (ret.op = "lint_tree" /\ AllDepsExist(tasks)) =>
        /\ ~Acyclic(tasks) => (ret.status # "panic" /\ HasKind("CyclicDependency"))
        /\ Acyclic(tasks) => ~HasKind("CyclicDependency")
        /\ \A e \in Errors : e.kind = "CyclicDependency" =>
            /\ CountOf(e) = 1
            /\ e.task_name \in DOMAIN tasks
            /\ e.dependency \in DepsOf(tasks, e.task_name)

\* C6 happens: a lint of a two-task cycle a -> b -> a reports a witness.
C6_Witness ==
    /\ LintReturned
    /\ AllDepsExist(tasks)
    /\ \E x, y \in DOMAIN tasks :
        x # y /\ y \in DepsOf(tasks, x) /\ x \in DepsOf(tasks, y)
    /\ HasKind("CyclicDependency")

\* C7: when every dependency exists, in the findings lint_tree returns a
\* symbolic task with dependencies is reported FloatingSymbolic exactly when it
\* is outside the least fixpoint of anchoring, and no non-symbolic task is
\* reported.
C7_Anchoring ==
    (LintReturned /\ AllDepsExist(tasks)) =>
        /\ \A n \in DOMAIN tasks :
            /\ (tasks[n].symbolic /\ tasks[n].depends_on # <<>>) =>
                (FloatingSymbolic(n) \in Errors <=> n \notin Anchored(tasks))
            /\ ~tasks[n].symbolic => FloatingSymbolic(n) \notin Errors

\* C7 happens: a symbolic task whose sole dependency is an unanchored symbolic
\* task is reported, next to a symbolic task whose sole dependency is
\* non-symbolic, which is not.
C7_Witness ==
    /\ LintReturned
    /\ AllDepsExist(tasks)
    /\ \E x, y \in DOMAIN tasks :
        /\ tasks[x].symbolic /\ tasks[x].depends_on = <<y>>
        /\ tasks[y].symbolic /\ y \notin Anchored(tasks)
        /\ FloatingSymbolic(x) \in Errors
    /\ \E x, y \in DOMAIN tasks :
        /\ tasks[x].symbolic /\ tasks[x].depends_on = <<y>>
        /\ ~tasks[y].symbolic
        /\ FloatingSymbolic(x) \notin Errors

\* C8: in an acyclic Tree whose dependencies all exist, an incomplete task due
\* strictly before now gets exactly one ImpossibleTaskError, with the reason
\* DueInPast, and no NotEnoughTime; a task due exactly now with no estimate and
\* no incomplete dependency gets none.
C8_DueInPastShortCircuits ==
    (LintReturned /\ Acyclic(tasks) /\ AllDepsExist(tasks)) =>
        \A n \in DOMAIN tasks :
            /\ (tasks[n].due # None /\ tasks[n].due < ret.now /\ ~tasks[n].complete) =>
                /\ CountOf(ImpossibleTaskError(n, "DueInPast")) = 1
                /\ CountOf(ImpossibleTaskError(n, "NotEnoughTime")) = 0
            /\ (/\ tasks[n].due = ret.now
                /\ tasks[n].estimated_time = None
                /\ IncompleteDeps(tasks, n) = {}) =>
                \A e \in Errors : ~(e.kind = "ImpossibleTaskError" /\ e.task_name = n)

\* C9: in the list lint_tree returns, every FloatingSymbolic precedes every
\* CyclicDependency, which precedes every NonexistentDependency, which
\* precedes every ImpossibleTaskError.
C9_CheckOrder ==
    LintReturned =>
        \A i, j \in 1 .. Len(ret.errors) :
            i < j => KindRank(ret.errors[i].kind) <= KindRank(ret.errors[j].kind)

\* C9 happens: one returned list holds a FloatingSymbolic, a CyclicDependency
\* and a NonexistentDependency.
C9_Witness ==
    /\ LintReturned
    /\ HasKind("FloatingSymbolic")
    /\ HasKind("CyclicDependency")
    /\ HasKind("NonexistentDependency")

\* C10: when every dependency exists and depends_on has a cycle, lint_tree
\* returns (the duration check is not entered), with a CyclicDependency, no
\* ImpossibleTaskError, and the floating symbolic tasks still reported; when
\* it returns without a CyclicDependency, every task with a due date was
\* checked: DueInPast if it is incomplete and due before now, NotEnoughTime if
\* its own estimate already ends after the due date.
C10_SkippedExactlyOnCycles ==
    (ret.op = "lint_tree" /\ AllDepsExist(tasks)) =>
        /\ ~Acyclic(tasks) => (ret.status # "panic" /\ HasKind("CyclicDependency"))
        /\ HasKind("CyclicDependency") =>
            /\ ~HasKind("ImpossibleTaskError")
            /\ \A n \in DOMAIN tasks :
                (tasks[n].symbolic /\ n \notin Anchored(tasks)) =>
                    FloatingSymbolic(n) \in Errors
        /\ (LintReturned /\ ~HasKind("CyclicDependency")) =>
            \A n \in DOMAIN tasks : tasks[n].due # None =>
                /\ (tasks[n].due < ret.now /\ ~tasks[n].complete) =>
                    ImpossibleTaskError(n, "DueInPast") \in Errors
                /\ (ret.now + unwrap_or_default(tasks[n].estimated_time) > tasks[n].due) =>
                    ImpossibleTaskError(n, "NotEnoughTime") \in Errors

\* C10 happens: a lint of a cyclic Tree with an incomplete task due before now
\* returns a CyclicDependency and a FloatingSymbolic.
C10_Witness ==
    /\ LintReturned
    /\ AllDepsExist(tasks)
    /\ HasKind("CyclicDependency")
    /\ HasKind("FloatingSymbolic")
    /\ \E n \in DOMAIN tasks :
        tasks[n].due # None /\ tasks[n].due < ret.now /\ ~tasks[n].complete

\* C11: lint_tree never reports FloatingSymbolic for a task whose depends_on
\* list is empty: such a task is exempt from the floating-symbolic check.
C11_EmptyDependencyExemption ==
    LintReturned =>
        \A n \in DOMAIN tasks :
            tasks[n].depends_on = <<>> => FloatingSymbolic(n) \notin Errors

====
